---------------------------- MODULE Spec2Model ----------------------------
(***************************************************************************)
(* A model of pylmdb (src/pylmdb/pylmdb.py): the Writer, the Reader and    *)
(* merge_db over an LMDB environment that holds two named databases,       *)
(* data_db and meta_db.                                                    *)
(*                                                                         *)
(* Python values are modelled as follows.                                  *)
(*   str        a sequence of one-character strings (int() and str()        *)
(*              inspect the characters); the keys of meta_db and the field  *)
(*              names of a sample are kept as atoms                         *)
(*   bytes      <<"bytes", s>>, the UTF-8 encoding of the str s             *)
(*   None       <<"None">>                                                  *)
(*   dict       a sequence of <<key, value>> pairs in insertion order       *)
(*   ndarray    a record [pytype, dtype, shape, data]                       *)
(*   exception  a string naming the exception type and the raise site      *)
(* Byte counts are kept in units of 10^6 bytes (TLC's integers are 32 bits *)
(* wide), so the 10 ** 9 of the RAM guard is 1000 units.                   *)
(***************************************************************************)
EXTENDS Integers, Sequences, FiniteSets, TLC

(***************************************************************************)
(* Bounds of the model.                                                    *)
(***************************************************************************)
\* put_samples is not offered once the append cursor has reached MaxCursor
MaxCursor == 2
\* the two source stores of a merge hold at most MaxSrc samples together
MaxSrc == 3

(***************************************************************************)
(* Program constants.                                                      *)
(***************************************************************************)
\* width of the "{:010}" key format
KeyWidth == 10
\* default of Writer.__init__'s ram_gb_limit
DefaultRamGb == 3
\* 10 ** 9 bytes, in units of 10^6 bytes
GB == 1000

\* tools.py: the reserved key of meta_db that holds the sample count
NB_SAMPLES == "nb_samples"

None == <<"None">>

DigitChar == <<"0", "1", "2", "3", "4", "5", "6", "7", "8", "9">>

(***************************************************************************)
(* Strings: str(n), int(s), "{:010}".format(i), encode_str, decode_str.    *)
(***************************************************************************)
RECURSIVE Digits(_)
Digits(n) ==
    IF n < 10 THEN <<DigitChar[n + 1]>>
    ELSE Digits(n \div 10) \o <<DigitChar[(n % 10) + 1]>>

\* str(n) of a Python int
str(n) == IF n < 0 THEN <<"-">> \o Digits(-n) ELSE Digits(n)

RECURSIVE ZeroPad(_, _)
ZeroPad(s, width) == IF Len(s) >= width THEN s ELSE ZeroPad(<<"0">> \o s, width)

\* "{:010}".format(i): sign-aware zero padding to 10 characters
FormatKey(i) ==
    IF i < 0 THEN <<"-">> \o ZeroPad(Digits(-i), KeyWidth - 1)
    ELSE ZeroPad(Digits(i), KeyWidth)

IsDigit(c) == \E d \in 1..10 : DigitChar[d] = c

DigitVal(c) == (CHOOSE d \in 1..10 : DigitChar[d] = c) - 1

RECURSIVE DigitsVal(_)
DigitsVal(s) ==
    IF Len(s) = 0 THEN 0
    ELSE 10 * DigitsVal(SubSeq(s, 1, Len(s) - 1)) + DigitVal(s[Len(s)])

\* whether int(s) accepts the str s: an optional sign, then decimal digits
IsIntLiteral(s) ==
    LET body == IF Len(s) > 0 /\ s[1] \in {"-", "+"} THEN Tail(s) ELSE s
    IN  Len(body) > 0 /\ \A j \in 1..Len(body) : IsDigit(body[j])

\* int(s) for a str that int() accepts
int(s) ==
    IF s[1] = "-" THEN 0 - DigitsVal(Tail(s))
    ELSE IF s[1] = "+" THEN DigitsVal(Tail(s))
    ELSE DigitsVal(s)

\* tools.py encode_str / decode_str: the UTF-8 round trip between str and bytes
encode_str(s) == <<"bytes", s>>

decode_str(b) == b[2]

IsBytes(x) == x[1] = "bytes"

IsNone(x) == x[1] = "None"

(***************************************************************************)
(* dict: a sequence of <<key, value>> pairs, in insertion order.           *)
(***************************************************************************)
DictKeys(d) == {d[j][1] : j \in 1..Len(d)}

DictGet(d, k) == d[CHOOSE j \in 1..Len(d) : d[j][1] = k][2]

\* d[k] = v
DictSet(d, k, v) ==
    IF k \in DictKeys(d)
    THEN [j \in 1..Len(d) |-> IF d[j][1] = k THEN <<k, v>> ELSE d[j]]
    ELSE Append(d, <<k, v>>)

(***************************************************************************)
(* numpy arrays and the msgpack codec.                                     *)
(***************************************************************************)
ItemSize(dtype) == IF dtype = "f8" THEN 8 ELSE 1

RECURSIVE Prod(_)
Prod(shape) == IF Len(shape) = 0 THEN 1 ELSE Head(shape) * Prod(Tail(shape))

\* ndarray.nbytes
nbytes(a) == ItemSize(a.dtype) * Prod(a.shape)

\* isinstance(v, np.ndarray)
IsNdarray(v) == v.pytype = "ndarray"

\* tools.py encode_data: the msgpack `default` hook for an ndarray
encode_data(obj) ==
    [nd |-> TRUE, type |-> obj.dtype, shape |-> obj.shape, data |-> obj.data]

\* tools.py decode_data: the msgpack `object_hook`
decode_data(obj) ==
    [pytype |-> "ndarray", dtype |-> obj.type, shape |-> obj.shape, data |-> obj.data]

\* msgpack.packb(obj, use_bin_type=True, default=encode_data) of one array
packb_array(obj) == <<"msgpack", encode_data(obj)>>

\* msgpack.unpackb(b, raw=False, use_list=False, object_hook=decode_data)
unpackb_array(b) == decode_data(b[2])

\* msgpack.packb(msg_pkgs, use_bin_type=True) of the dict of inner blobs
packb(msg_pkgs) == <<"msgpack", msg_pkgs>>

\* msgpack.unpackb(b, raw=False, use_list=True) of an outer blob
unpackb(b) == b[2]

(***************************************************************************)
(* The LMDB environment of one directory: two named databases, each a set  *)
(* of <<key, value>> pairs with unique keys.  `exists` is whether the      *)
(* environment has been created on disk (lmdb.open by a Writer creates it).*)
(***************************************************************************)
NoStore == [exists |-> FALSE, data |-> {}, meta |-> {}]

\* txn.get(key)
txn_get(db, key) ==
    IF \E p \in db : p[1] = key
    THEN (CHOOSE p \in db : p[1] = key)[2]
    ELSE None

\* txn.put(key, value)
txn_put(db, key, value) == {p \in db : p[1] # key} \cup {<<key, value>>}

DbKeys(db) == {p[1] : p \in db}

(***************************************************************************)
(* Inputs of the model.                                                    *)
(***************************************************************************)
SmallArr == [pytype |-> "ndarray", dtype |-> "u1", shape |-> <<2>>, data |-> "y"]

\* 8 * 250 units = 2 GB
BigArr == [pytype |-> "ndarray", dtype |-> "f8", shape |-> <<250>>, data |-> "X"]

\* a value that is not an ndarray
NotArr == [pytype |-> "list", dtype |-> "", shape |-> <<>>, data |-> "l"]

EmptySample == <<>>

SampleA == << <<"x", SmallArr>> >>

\* two fields, 2 GB in all
SampleB == << <<"x", SmallArr>>, <<"y", BigArr>> >>

\* 4 GB, above the default RAM budget of 3 GB
SampleOver == << <<"x", BigArr>>, <<"y", BigArr>> >>

SampleBadType == << <<"x", NotArr>> >>

\* the dicts of arrays a caller passes
ArraySamples == {EmptySample, SampleA, SampleB, SampleOver}

SampleInputs == ArraySamples \cup {SampleBadType}

\* the dicts passed to change_db_value / change_value
OverwriteInputs == {EmptySample, SampleB, SampleOver, SampleBadType}

\* the set_meta_str calls of a Writer session: a user key, and the reserved key
\* with a decimal and with a non-decimal string
MetaInputs == {<<"k1", <<"a">>>>, <<NB_SAMPLES, <<"1">>>>, <<NB_SAMPLES, <<"a">>>>}

(***************************************************************************)
(* Writer.  A handle is [state, dirpath, nb_samples, db_stats,             *)
(* ram_gb_limit, pc]; state is "none" (no handle), "open" or "closed".     *)
(* Every method is an operator from the handle w and the store st of its   *)
(* directory to [w, st, exc]: the handle and the store afterwards and the  *)
(* exception raised ("none" when the call returns).  `fault` is the place  *)
(* where the LMDB engine reports MDB_MAP_FULL during the call: "none",     *)
(* "put" (a txn.put of the data transaction), "commit" (the commit of the  *)
(* data transaction when its with-block is left) or "meta" (the metadata   *)
(* transaction).                                                           *)
(***************************************************************************)
\* pc is where the thread that called put_samples stands: "idle" outside
\* the call, "count" between the commit of the data transaction and the
\* set_meta_str of the count
NoWriter ==
    [state |-> "none", dirpath |-> "", nb_samples |-> 0, db_stats |-> "",
     ram_gb_limit |-> 0, pc |-> "idle"]

Faults == {"none", "put", "commit", "meta"}

\* the faults of a call that runs the data transaction only
DataFaults == {"none", "put", "commit"}

\* the faults of a call that runs the metadata transaction only
MetaFaults == {"none", "meta"}

Res(w, st, exc) == [w |-> w, st |-> st, exc |-> exc]

\* `not _k` for the value txn.get returns: None or empty bytes
Falsy(x) == IsNone(x) \/ (IsBytes(x) /\ Len(x[2]) = 0)

\* the first loop of put_samples / change_value: some value is no ndarray
HasBadType(samples) == \E j \in 1..Len(samples) : ~IsNdarray(samples[j][2])

\* gb_required before the division: the sum of the arrays' nbytes
RECURSIVE BytesRequired(_)
BytesRequired(samples) ==
    IF Len(samples) = 0 THEN 0
    ELSE nbytes(Head(samples)[2]) + BytesRequired(Tail(samples))

\* a put_samples without the RAM guard: no dict is over the budget
OverRam_never(w, samples) == FALSE

\* self.ram_gb_limit < gb_required
OverRam(w, samples) == w.ram_gb_limit * GB < BytesRequired(samples)

\* the loop inside the write transaction: one txn.put per field, each of the
\* dict of blobs built so far, all under the one key
RECURSIVE PutLoop(_, _, _, _, _)
PutLoop(samples, j, msg_pkgs, db, key) ==
    IF j > Len(samples) THEN db
    ELSE LET pkgs == DictSet(msg_pkgs, samples[j][1], packb_array(samples[j][2]))
         IN  PutLoop(samples, j + 1, pkgs, txn_put(db, key, packb(pkgs)), key)

\* a set_meta_str that does not need the environment to be open
set_meta_str_closed(w, st, key, string, fault) ==
    IF fault = "meta" THEN Res(w, st, "lmdb.MapFullError")
    ELSE Res(w, [st EXCEPT !.meta = txn_put(@, encode_str(key), encode_str(string))],
             "none")

set_meta_str(w, st, key, string, fault) ==
    IF w.state # "open" THEN Res(w, st, "lmdb.Error")
    ELSE IF fault = "meta" THEN Res(w, st, "lmdb.MapFullError")
    ELSE Res(w, [st EXCEPT !.meta = txn_put(@, encode_str(key), encode_str(string))],
             "none")

\* put_samples up to the end of its try block: the checks and the data
\* transaction with the increment of the counter
put_samples_data(w, st, samples, fault) ==
    IF HasBadType(samples) THEN Res(w, st, "ValueError(type)")
    ELSE IF OverRam(w, samples) THEN Res(w, st, "ValueError(ram_gb_limit)")
    ELSE IF w.state # "open" THEN Res(w, st, "lmdb.Error")
    ELSE IF fault = "put" /\ Len(samples) > 0
         THEN Res(w, st, "AttributeError(map_size)")
    ELSE LET w1 == [w EXCEPT !.nb_samples = @ + 1]
         IN  IF fault = "commit" /\ Len(samples) > 0
             THEN Res(w1, st, "AttributeError(map_size)")
             ELSE LET key == encode_str(FormatKey(w.nb_samples))
                  IN  Res(w1, [st EXCEPT !.data = PutLoop(samples, 1, <<>>, @, key)],
                          "none")

\* the last line of put_samples: the count is written to meta_db
put_samples_count(w, st, fault) ==
    set_meta_str(w, st, NB_SAMPLES, str(w.nb_samples), fault)

put_samples(w, st, samples, fault) ==
    LET d == put_samples_data(w, st, samples, fault)
    IN  IF d.exc # "none" THEN d
        ELSE put_samples_count(d.w, d.st, fault)

\* an overwrite that appends: the dict goes to the cursor, which moves on
change_value_append(w, st, num_id, samples, fault) == put_samples(w, st, samples, fault)

change_value(w, st, num_id, samples, fault) ==
    IF HasBadType(samples) THEN Res(w, st, "ValueError(type)")
    ELSE IF OverRam(w, samples) THEN Res(w, st, "ValueError(ram_gb_limit)")
    ELSE IF w.state # "open" THEN Res(w, st, "lmdb.Error")
    ELSE IF fault \in {"put", "commit"} /\ Len(samples) > 0
         THEN Res(w, st, "lmdb.MapFullError")
    ELSE LET key == encode_str(FormatKey(num_id))
         IN  Res(w, [st EXCEPT !.data = PutLoop(samples, 1, <<>>, @, key)], "none")

\* answer is what the user types at the prompt of safe_model
change_db_value(w, st, key, value, safe_model, answer, fault) ==
    LET num_size == w.nb_samples
    IN  IF key < num_size
        THEN IF safe_model /\ answer # "yes"
             THEN Res(w, st, "SystemExit")
             ELSE change_value(w, st, key, value, fault)
        ELSE Res(w, st, "ValueError(index)")

\* a start-up check that takes every store for a new one
check_db_stats_create(w, st) == Res([w EXCEPT !.db_stats = "create_stats"], st, "none")

check_db_stats(w, st) ==
    LET _k == txn_get(st.meta, encode_str("nb_samples"))
    IN  IF Falsy(_k) THEN Res([w EXCEPT !.db_stats = "create_stats"], st, "none")
        ELSE IF ~IsIntLiteral(decode_str(_k)) THEN Res(NoWriter, st, "ValueError(int)")
        ELSE Res([w EXCEPT !.nb_samples = int(decode_str(_k)),
                           !.db_stats = "auto_update_stats"], st, "none")

\* Writer.__init__; lmdb.open and open_db create the environment when missing
Writer_init(dirpath, map_size_limit, ram_gb_limit, st) ==
    IF map_size_limit <= 0 \/ ram_gb_limit <= 0 THEN Res(NoWriter, st, "ValueError(limit)")
    ELSE check_db_stats([state |-> "open", dirpath |-> dirpath, nb_samples |-> 0,
                         db_stats |-> "", ram_gb_limit |-> ram_gb_limit,
                         pc |-> "idle"],
                        [st EXCEPT !.exists = TRUE])

Writer_close(w, st, fault) ==
    LET r == set_meta_str(w, st, NB_SAMPLES, str(w.nb_samples), fault)
    IN  IF r.exc # "none" THEN r
        ELSE Res([w EXCEPT !.state = "closed"], r.st, "none")

(***************************************************************************)
(* Reader.  A handle is [state, dirpath, nb_samples]; a read returns       *)
(* [exc, ret].                                                             *)
(***************************************************************************)
NoReader == [state |-> "none", dirpath |-> "", nb_samples |-> 0]

NoRet == <<>>

Out(exc, ret) == [exc |-> exc, ret |-> ret]

\* the str get_meta_str returns: the decoded value, or str(None)
get_meta_str(st, key) ==
    LET _k == txn_get(st.meta, encode_str(key))
    IN  IF IsBytes(_k) THEN decode_str(_k) ELSE <<"N", "o", "n", "e">>

\* Reader.__init__: [r, exc]
Reader_init(dirpath, st) ==
    IF ~st.exists THEN [r |-> NoReader, exc |-> "lmdb.Error"]
    ELSE LET s == get_meta_str(st, NB_SAMPLES)
         IN  [r |-> [state |-> "open", dirpath |-> dirpath,
                     nb_samples |-> IF IsIntLiteral(s) THEN int(s) ELSE 0],
              exc |-> "none"]

\* the decoding loop of get_sample over the unpacked outer dict
RECURSIVE DecodeLoop(_, _, _)
DecodeLoop(_obj, j, obj) ==
    IF j > Len(_obj) THEN obj
    ELSE LET _k == _obj[j][1]
         IN  DecodeLoop(_obj, j + 1, DictSet(obj, _k, unpackb_array(DictGet(_obj, _k))))

get_sample(r, st, i) ==
    IF 0 > i \/ r.nb_samples <= i THEN Out("IndexError", NoRet)
    ELSE IF r.state # "open" THEN Out("lmdb.Error", NoRet)
    ELSE LET v == txn_get(st.data, encode_str(FormatKey(i)))
         IN  IF IsNone(v) THEN Out("TypeError", NoRet)
             ELSE Out("none", DecodeLoop(unpackb(v), 1, <<>>))

\* the loop of get_samples over range(_i, stop): [exc, ret]
RECURSIVE RangeLoop(_, _, _, _, _)
RangeLoop(r, st, _i, stop, samples_sum) ==
    IF _i >= stop THEN Out("none", samples_sum)
    ELSE LET v == txn_get(st.data, encode_str(FormatKey(_i)))
         IN  IF IsNone(v) THEN Out("TypeError", NoRet)
             ELSE RangeLoop(r, st, _i + 1, stop,
                            Append(samples_sum, DecodeLoop(unpackb(v), 1, <<>>)))

\* a ranged read that tests only the lower end of the range
get_samples_lower(r, st, i, size) ==
    IF 0 > i THEN Out("IndexError", NoRet)
    ELSE IF r.state # "open" THEN Out("lmdb.Error", NoRet)
    ELSE RangeLoop(r, st, i, i + size, <<>>)

\* Reader.get_samples
get_samples(r, st, i, size) ==
    IF 0 > i \/ r.nb_samples <= i + size - 1 THEN Out("IndexError", NoRet)
    ELSE IF r.state # "open" THEN Out("lmdb.Error", NoRet)
    ELSE RangeLoop(r, st, i, i + size, <<>>)

\* indexing that passes the key to get_sample as it is, without the wraparound
getitem_nowrap(r, st, key) == get_sample(r, st, key)

\* Reader.__getitem__ with an int key
getitem(r, st, key) ==
    LET _key == IF 0 > key THEN key + r.nb_samples ELSE key
    IN  IF 0 > _key \/ r.nb_samples <= _key THEN Out("IndexError", NoRet)
        ELSE get_sample(r, st, _key)

\* Reader.get_meta_key_info
get_meta_key_info(st) == {decode_str(k) : k \in DbKeys(st.meta)}

(***************************************************************************)
(* merge_db: the bodies of its loops, on the target Writer mw and the      *)
(* target store st, reading the source Reader src_db over the store src.   *)
(***************************************************************************)
\* a loop body that always copies the first sample of the source
CopyOne_first(mw, st, src_db, src, i, fault) ==
    LET got == getitem(src_db, src, 0)
    IN  IF got.exc # "none" THEN Res(mw, st, got.exc)
        ELSE put_samples(mw, st, got.ret, fault)

\* merge_db.put_samples(src_db[i])
CopyOne(mw, st, src_db, src, i, fault) ==
    LET got == getitem(src_db, src, i)
    IN  IF got.exc # "none" THEN Res(mw, st, got.exc)
        ELSE put_samples(mw, st, got.ret, fault)

\* the body of a metadata loop that keeps a value the target already holds
CopyKey_keep(mw, st, src, i) ==
    IF i # "nb_samples" /\ IsNone(txn_get(st.meta, encode_str(i)))
    THEN set_meta_str(mw, st, i, get_meta_str(src, i), "none")
    ELSE Res(mw, st, "none")

\* the body of a metadata loop: every key but nb_samples is copied
CopyKey(mw, st, src, i) ==
    IF i # "nb_samples"
    THEN set_meta_str(mw, st, i, get_meta_str(src, i), "none")
    ELSE Res(mw, st, "none")

\* for i in src_db.get_meta_key_info(): ...; keys is what is left of the set
RECURSIVE CopyMeta(_, _, _, _)
CopyMeta(mw, st, src, keys) ==
    IF keys = {} THEN Res(mw, st, "none")
    ELSE LET i == CHOOSE k \in keys : TRUE
             res == CopyKey(mw, st, src, i)
         IN  IF res.exc # "none" THEN res
             ELSE CopyMeta(res.w, res.st, src, keys \ {i})

Reader_close(rd) == [rd EXCEPT !.state = "closed"]

(***************************************************************************)
(* What a script puts into the source stores of a merge.                   *)
(***************************************************************************)
SrcSamples == {EmptySample, SampleA, SampleB}

SrcMetaInputs == {<<"k1", <<"a">>>>, <<"k1", <<"1">>>>, <<"k2", <<"a">>>>}

(***************************************************************************)
(* The state.                                                              *)
(*   env   the store of every directory                                    *)
(*   w     the Writer handle in use                                        *)
(*   r     the Reader handle in use                                        *)
(*   mg    the position of the merging script and of merge_db in it, the   *)
(*         two Readers of merge_db and its loop index                      *)
(*   last  the last call: [op, arg, exc, ret], the method, the index passed *)
(*         to a read or an overwrite, the exception raised ("none" when    *)
(*         the call returned) and what a read returned                     *)
(*   hist  the dicts passed to the put_samples calls that returned, in     *)
(*         call order (history; kept while pure)                           *)
(*   pure  whether every call so far was a Writer(), a put_samples or a    *)
(*         Writer.close that returned, or a Reader call (history)          *)
(***************************************************************************)
VARIABLES env, w, r, mg, last, hist, pure

vars == <<env, w, r, mg, last, hist, pure>>

\* the directory of the Writer / Reader session
Dir == "data"

Dirs == {"data", "A", "B", "C"}

NoMerge == [pc |-> "idle", A_db |-> NoReader, B_db |-> NoReader, i |-> 0]

Call(op, arg, exc, ret) == [op |-> op, arg |-> arg, exc |-> exc, ret |-> ret]

\* the indices offered to an overwrite: a negative one and those a cursor can pass
WriteIdx == (0 - 1)..(MaxCursor - 1)

\* the indices offered to a read
ReadIdx == (0 - (MaxCursor + 1))..MaxCursor

\* safe_model and what the prompt of change_db_value is answered
Confirms == {<<FALSE, "">>, <<TRUE, "yes">>, <<TRUE, "no">>}

Init ==
    /\ env = [d \in Dirs |-> NoStore]
    /\ w = NoWriter
    /\ r = NoReader
    /\ mg = NoMerge
    /\ last = Call("init", 0, "none", NoRet)
    /\ hist = <<>>
    /\ pure = TRUE

\* the history after a call: kept while every call is an append call that returned
Track(ok, h) ==
    /\ pure' = (pure /\ ok)
    /\ hist' = IF pure /\ ok THEN h ELSE <<>>

\* db = Writer(dirpath, map_size_limit): on an exception db keeps its old value
WriterOpen(map_size_limit) ==
    /\ w.state # "open"
    /\ LET res == Writer_init(Dir, map_size_limit, DefaultRamGb, env[Dir])
       IN  /\ w' = IF res.exc = "none" THEN res.w ELSE w
           /\ env' = [env EXCEPT ![Dir] = res.st]
           /\ last' = Call("Writer", 0, res.exc, NoRet)
           /\ Track(res.exc = "none", hist)
    /\ UNCHANGED <<r, mg>>

PutSamples(samples, fault) ==
    /\ w.state # "none"
    /\ w.nb_samples < MaxCursor
    /\ LET res == put_samples(w, env[Dir], samples, fault)
       IN  /\ w' = res.w
           /\ env' = [env EXCEPT ![Dir] = res.st]
           /\ last' = Call("put_samples", 0, res.exc, NoRet)
           /\ Track(res.exc = "none", Append(hist, samples))
    /\ UNCHANGED <<r, mg>>

ChangeDbValue(key, value, safe_model, answer, fault) ==
    /\ w.state # "none"
    /\ LET res == change_db_value(w, env[Dir], key, value, safe_model, answer, fault)
       IN  /\ w' = res.w
           /\ env' = [env EXCEPT ![Dir] = res.st]
           /\ last' = Call("change_db_value", key, res.exc, NoRet)
    /\ Track(FALSE, hist)
    /\ UNCHANGED <<r, mg>>

ChangeValue(num_id, samples, fault) ==
    /\ w.state # "none"
    /\ LET res == change_value(w, env[Dir], num_id, samples, fault)
       IN  /\ w' = res.w
           /\ env' = [env EXCEPT ![Dir] = res.st]
           /\ last' = Call("change_value", num_id, res.exc, NoRet)
    /\ Track(FALSE, hist)
    /\ UNCHANGED <<r, mg>>

SetMetaStr(key, string, fault) ==
    /\ w.state # "none"
    /\ LET res == set_meta_str(w, env[Dir], key, string, fault)
       IN  /\ w' = res.w
           /\ env' = [env EXCEPT ![Dir] = res.st]
           /\ last' = Call("set_meta_str", 0, res.exc, NoRet)
    /\ Track(FALSE, hist)
    /\ UNCHANGED <<r, mg>>

WriterClose(fault) ==
    /\ w.state # "none"
    /\ LET res == Writer_close(w, env[Dir], fault)
       IN  /\ w' = res.w
           /\ env' = [env EXCEPT ![Dir] = res.st]
           /\ last' = Call("Writer.close", 0, res.exc, NoRet)
           /\ Track(res.exc = "none", hist)
    /\ UNCHANGED <<r, mg>>

ReaderOpen ==
    /\ r.state # "open"
    /\ LET res == Reader_init(Dir, env[Dir])
       IN  /\ r' = IF res.exc = "none" THEN res.r ELSE r
           /\ last' = Call("Reader", 0, res.exc, NoRet)
    /\ UNCHANGED <<env, w, mg, hist, pure>>

ReaderGetSample(i) ==
    /\ r.state = "open"
    /\ LET out == get_sample(r, env[Dir], i)
       IN  last' = Call("get_sample", i, out.exc, out.ret)
    /\ UNCHANGED <<env, w, r, mg, hist, pure>>

ReaderGetItem(key) ==
    /\ r.state = "open"
    /\ LET out == getitem(r, env[Dir], key)
       IN  last' = Call("getitem", key, out.exc, out.ret)
    /\ UNCHANGED <<env, w, r, mg, hist, pure>>

\* Reader.close
ReaderClose ==
    /\ r.state = "open"
    /\ r' = [r EXCEPT !.state = "closed"]
    /\ last' = Call("Reader.close", 0, "none", NoRet)
    /\ UNCHANGED <<env, w, mg, hist, pure>>

\* a session that appends and reads
Next ==
    \/ \E m \in {0, 1} : WriterOpen(m)
    \/ \E s \in SampleInputs, f \in Faults : PutSamples(s, f)
    \/ \E f \in MetaFaults : WriterClose(f)
    \/ ReaderOpen
    \/ \E i \in ReadIdx : ReaderGetSample(i)
    \/ \E i \in ReadIdx : ReaderGetItem(i)
    \/ ReaderClose

Spec == Init /\ [][Next]_vars

\* every method of a Writer, in any order
NextWriter ==
    \/ \E m \in {0, 1} : WriterOpen(m)
    \/ \E s \in SampleInputs, f \in Faults : PutSamples(s, f)
    \/ \E k \in WriteIdx, s \in OverwriteInputs, c \in Confirms, f \in {"none", "put"} :
          ChangeDbValue(k, s, c[1], c[2], f)
    \/ \E k \in WriteIdx, s \in OverwriteInputs, f \in DataFaults : ChangeValue(k, s, f)
    \/ \E kv \in MetaInputs, f \in MetaFaults : SetMetaStr(kv[1], kv[2], f)
    \/ \E f \in MetaFaults : WriterClose(f)

SpecWriter == Init /\ [][NextWriter]_vars

\* the appends and the overwrites of one open Writer
NextOverwrite ==
    \/ \E m \in {0, 1} : WriterOpen(m)
    \/ \E s \in SrcSamples, f \in {"none", "commit"} : PutSamples(s, f)
    \/ \E k \in WriteIdx, s \in OverwriteInputs, c \in Confirms, f \in {"none", "put"} :
          ChangeDbValue(k, s, c[1], c[2], f)
    \/ \E k \in WriteIdx, s \in OverwriteInputs, f \in {"none", "put"} : ChangeValue(k, s, f)

SpecOverwrite == Init /\ [][NextOverwrite]_vars

\* a Writer that appends and sets metadata, and a Reader opened at any time
NextMeta ==
    \/ \E m \in {0, 1} : WriterOpen(m)
    \/ \E s \in {EmptySample, SampleA} : PutSamples(s, "none")
    \/ \E kv \in MetaInputs, f \in MetaFaults : SetMetaStr(kv[1], kv[2], f)
    \/ \E f \in MetaFaults : WriterClose(f)
    \/ ReaderOpen
    \/ ReaderClose

SpecMeta == Init /\ [][NextMeta]_vars

\* the life of a Writer handle: every method, before and after close()
NextHandle ==
    \/ \E m \in {0, 1} : WriterOpen(m)
    \/ \E s \in {EmptySample, SampleA, SampleBadType} : PutSamples(s, "none")
    \/ \E k \in WriteIdx, c \in Confirms : ChangeDbValue(k, SampleB, c[1], c[2], "none")
    \/ \E k \in WriteIdx, s \in {EmptySample, SampleB} : ChangeValue(k, s, "none")
    \/ \E kv \in MetaInputs : SetMetaStr(kv[1], kv[2], "none")
    \/ \E f \in MetaFaults : WriterClose(f)

SpecHandle == Init /\ [][NextHandle]_vars

(***************************************************************************)
(* Ranged reads of a store built by appends, empty samples included.       *)
(***************************************************************************)
RangeSizes == (0 - 1)..(MaxCursor + 1)

ReaderGetSamples(i, size) ==
    /\ r.state = "open"
    /\ LET out == get_samples(r, env[Dir], i, size)
       IN  last' = Call("get_samples", <<i, size>>, out.exc, out.ret)
    /\ UNCHANGED <<env, w, r, mg, hist, pure>>

NextRange ==
    \/ \E m \in {0, 1} : WriterOpen(m)
    \/ \E s \in SrcSamples : PutSamples(s, "none")
    \/ WriterClose("none")
    \/ ReaderOpen
    \/ \E i \in ReadIdx, size \in RangeSizes : ReaderGetSamples(i, size)
    \/ ReaderClose

SpecRange == Init /\ [][NextRange]_vars

(***************************************************************************)
(* A Writer that stops between two calls without close(): the process      *)
(* ends, the handle is gone and the store keeps what was committed.  The   *)
(* history counts the put_samples calls that returned, failed calls of the *)
(* same session left aside.                                                *)
(***************************************************************************)
PutSamplesCounted(samples, fault) ==
    /\ w.state = "open"
    /\ w.nb_samples < MaxCursor
    /\ LET res == put_samples(w, env[Dir], samples, fault)
       IN  /\ w' = res.w
           /\ env' = [env EXCEPT ![Dir] = res.st]
           /\ last' = Call("put_samples", 0, res.exc, NoRet)
           /\ hist' = IF res.exc = "none" THEN Append(hist, samples) ELSE hist
    /\ UNCHANGED <<r, mg, pure>>

WriterStop ==
    /\ w.state = "open"
    /\ w' = NoWriter
    /\ last' = Call("stop", 0, "none", NoRet)
    /\ UNCHANGED <<env, r, mg, hist, pure>>

NextResume ==
    \/ WriterOpen(1)
    \/ \E s \in SrcSamples, f \in Faults : PutSamplesCounted(s, f)
    \/ WriterStop
    \/ ReaderOpen
    \/ \E i \in ReadIdx : ReaderGetSample(i)
    \/ ReaderClose

SpecResume == Init /\ [][NextResume]_vars

(***************************************************************************)
(* Scoped use: `with Writer(...) as db:` and `with Reader(...) as db:`.    *)
(* The block is left after any of its calls, returned or raised, and       *)
(* __exit__ runs close().                                                  *)
(***************************************************************************)
\* Writer.__exit__
WriterExit(fault) ==
    /\ w.state # "none"
    /\ LET res == Writer_close(w, env[Dir], fault)
       IN  /\ w' = res.w
           /\ env' = [env EXCEPT ![Dir] = res.st]
           /\ last' = Call("Writer.__exit__", 0, res.exc, NoRet)
    /\ Track(FALSE, hist)
    /\ UNCHANGED <<r, mg>>

\* Reader.__exit__
ReaderExit ==
    /\ r.state # "none"
    /\ r' = Reader_close(r)
    /\ last' = Call("Reader.__exit__", 0, "none", NoRet)
    /\ UNCHANGED <<env, w, mg, hist, pure>>

NextScoped ==
    \/ \E m \in {0, 1} : WriterOpen(m)
    \/ \E s \in {SampleA, SampleOver}, f \in Faults : PutSamples(s, f)
    \/ \E f \in MetaFaults : WriterExit(f)
    \/ ReaderOpen
    \/ \E i \in ReadIdx : ReaderGetSample(i)
    \/ ReaderExit

SpecScoped == Init /\ [][NextScoped]_vars

(***************************************************************************)
(* A Writer thread and a Reader thread on one directory.  put_samples is   *)
(* two steps, its data transaction and its count transaction, and the      *)
(* Reader's calls fall between any two of the Writer's transactions.       *)
(* `last` is left alone while put_samples is between its transactions.     *)
(***************************************************************************)
PutSamplesData(samples, fault) ==
    /\ w.state = "open"
    /\ w.pc = "idle"
    /\ w.nb_samples < MaxCursor
    /\ LET res == put_samples_data(w, env[Dir], samples, fault)
       IN  /\ env' = [env EXCEPT ![Dir] = res.st]
           /\ IF res.exc = "none"
              THEN /\ w' = [res.w EXCEPT !.pc = "count"]
                   /\ last' = last
              ELSE /\ w' = res.w
                   /\ last' = Call("put_samples", 0, res.exc, NoRet)
    /\ Track(FALSE, hist)
    /\ UNCHANGED <<r, mg>>

PutSamplesCount(fault) ==
    /\ w.state = "open"
    /\ w.pc = "count"
    /\ LET res == put_samples_count(w, env[Dir], fault)
       IN  /\ w' = [res.w EXCEPT !.pc = "idle"]
           /\ env' = [env EXCEPT ![Dir] = res.st]
           /\ last' = Call("put_samples", 0, res.exc, NoRet)
    /\ UNCHANGED <<r, mg, hist, pure>>

NextSnapshot ==
    \/ \E m \in {0, 1} : WriterOpen(m)
    \/ \E s \in SrcSamples, f \in DataFaults : PutSamplesData(s, f)
    \/ \E f \in MetaFaults : PutSamplesCount(f)
    \/ ReaderOpen
    \/ \E i \in ReadIdx : ReaderGetSample(i)
    \/ ReaderClose

SpecSnapshot == Init /\ [][NextSnapshot]_vars

(***************************************************************************)
(* A merge.  The script builds the source A with a Writer (some            *)
(* put_samples, some set_meta_str, close), then the source B in the same   *)
(* way, then calls merge_db on the fresh target C.  mg.pc is "A" or "B"    *)
(* while that source is built, "ready" before the call, and inside the     *)
(* call "copyA", "copyB" (the loops over a source) and "close"; "done"     *)
(* after it.  merge_db's steps leave `last` alone until the call returns   *)
(* or raises.                                                              *)
(***************************************************************************)
InitMerge ==
    /\ env = [d \in Dirs |-> NoStore]
    /\ w = NoWriter
    /\ r = NoReader
    /\ mg = [NoMerge EXCEPT !.pc = "A"]
    /\ last = Call("init", 0, "none", NoRet)
    /\ hist = <<>>
    /\ pure = TRUE

\* the samples the sources built so far hold together
SrcTotal == Reader_init("A", env["A"]).r.nb_samples + Reader_init("B", env["B"]).r.nb_samples

SrcOpen ==
    /\ mg.pc \in {"A", "B"}
    /\ w.state = "none"
    /\ LET res == Writer_init(mg.pc, 1, DefaultRamGb, env[mg.pc])
       IN  /\ w' = res.w
           /\ env' = [env EXCEPT ![mg.pc] = res.st]
           /\ last' = Call("Writer", 0, res.exc, NoRet)
    /\ UNCHANGED <<r, mg, hist, pure>>

SrcPut(samples) ==
    /\ mg.pc \in {"A", "B"}
    /\ w.state = "open"
    /\ SrcTotal < MaxSrc
    /\ LET res == put_samples(w, env[mg.pc], samples, "none")
       IN  /\ w' = res.w
           /\ env' = [env EXCEPT ![mg.pc] = res.st]
           /\ last' = Call("put_samples", 0, res.exc, NoRet)
    /\ UNCHANGED <<r, mg, hist, pure>>

SrcSetMeta(key, string) ==
    /\ mg.pc \in {"A", "B"}
    /\ w.state = "open"
    /\ LET res == set_meta_str(w, env[mg.pc], key, string, "none")
       IN  /\ w' = res.w
           /\ env' = [env EXCEPT ![mg.pc] = res.st]
           /\ last' = Call("set_meta_str", 0, res.exc, NoRet)
    /\ UNCHANGED <<r, mg, hist, pure>>

SrcClose ==
    /\ mg.pc \in {"A", "B"}
    /\ w.state = "open"
    /\ LET res == Writer_close(w, env[mg.pc], "none")
       IN  /\ w' = NoWriter
           /\ env' = [env EXCEPT ![mg.pc] = res.st]
           /\ last' = Call("Writer.close", 0, res.exc, NoRet)
    /\ mg' = [mg EXCEPT !.pc = IF mg.pc = "A" THEN "B" ELSE "ready"]
    /\ UNCHANGED <<r, hist, pure>>

\* merge_db raising exc: the handles stay as they are
MergeRaise(exc) ==
    /\ mg' = [mg EXCEPT !.pc = "done"]
    /\ last' = Call("merge_db", 0, exc, NoRet)

\* merge_db's first three lines: the target Writer and the two Readers
MergeOpen(map_size_limit) ==
    /\ mg.pc = "ready"
    /\ LET mw == Writer_init("C", map_size_limit, DefaultRamGb, env["C"])
           A == Reader_init("A", env["A"])
           B == Reader_init("B", env["B"])
       IN  /\ env' = [env EXCEPT !["C"] = mw.st]
           /\ w' = mw.w
           /\ IF mw.exc # "none" THEN MergeRaise(mw.exc)
              ELSE IF A.exc # "none" THEN MergeRaise(A.exc)
              ELSE IF B.exc # "none" THEN MergeRaise(B.exc)
              ELSE /\ mg' = [pc |-> "copyA", A_db |-> A.r, B_db |-> B.r, i |-> 0]
                   /\ last' = last
    /\ UNCHANGED <<r, hist, pure>>

\* one pass of a sample loop
MergeCopySample(fault) ==
    /\ mg.pc \in {"copyA", "copyB"}
    /\ LET src_db == IF mg.pc = "copyA" THEN mg.A_db ELSE mg.B_db
       IN  /\ mg.i < src_db.nb_samples
           /\ LET res == CopyOne(w, env["C"], src_db, env[src_db.dirpath], mg.i, fault)
              IN  /\ w' = res.w
                  /\ env' = [env EXCEPT !["C"] = res.st]
                  /\ IF res.exc # "none" THEN MergeRaise(res.exc)
                     ELSE /\ mg' = [mg EXCEPT !.i = @ + 1]
                          /\ last' = last
    /\ UNCHANGED <<r, hist, pure>>

\* the metadata loop that follows a sample loop
MergeCopyMeta ==
    /\ mg.pc \in {"copyA", "copyB"}
    /\ LET src_db == IF mg.pc = "copyA" THEN mg.A_db ELSE mg.B_db
           src == env[src_db.dirpath]
       IN  /\ mg.i >= src_db.nb_samples
           /\ LET res == CopyMeta(w, env["C"], src, get_meta_key_info(src))
              IN  /\ w' = res.w
                  /\ env' = [env EXCEPT !["C"] = res.st]
                  /\ IF res.exc # "none" THEN MergeRaise(res.exc)
                     ELSE /\ mg' = [mg EXCEPT !.pc = IF mg.pc = "copyA" THEN "copyB"
                                                     ELSE "close",
                                              !.i = 0]
                          /\ last' = last
    /\ UNCHANGED <<r, hist, pure>>

\* merge_db's last three lines
MergeClose ==
    /\ mg.pc = "close"
    /\ LET res == Writer_close(w, env["C"], "none")
       IN  /\ w' = res.w
           /\ env' = [env EXCEPT !["C"] = res.st]
           /\ mg' = [mg EXCEPT !.pc = "done", !.A_db = Reader_close(@),
                               !.B_db = Reader_close(@)]
           /\ last' = Call("merge_db", 0, res.exc, NoRet)
    /\ UNCHANGED <<r, hist, pure>>

NextMerge ==
    \/ SrcOpen
    \/ \E s \in SrcSamples : SrcPut(s)
    \/ \E kv \in SrcMetaInputs : SrcSetMeta(kv[1], kv[2])
    \/ SrcClose
    \/ \E m \in {0, 1} : MergeOpen(m)
    \/ \E f \in {"none", "put"} : MergeCopySample(f)
    \/ MergeCopyMeta
    \/ MergeClose

SpecMerge == InitMerge /\ [][NextMerge]_vars

(***************************************************************************)
(* A merge into a target that holds samples already.  The script first     *)
(* builds the target C with a Writer (some put_samples, close), mg.pc =    *)
(* "C", then the sources, then calls merge_db.  hist keeps the dicts put   *)
(* into the target before the merge.                                       *)
(***************************************************************************)
InitMergeInto ==
    /\ env = [d \in Dirs |-> NoStore]
    /\ w = NoWriter
    /\ r = NoReader
    /\ mg = [NoMerge EXCEPT !.pc = "C"]
    /\ last = Call("init", 0, "none", NoRet)
    /\ hist = <<>>
    /\ pure = TRUE

TgtOpen ==
    /\ mg.pc = "C"
    /\ w.state = "none"
    /\ LET res == Writer_init("C", 1, DefaultRamGb, env["C"])
       IN  /\ w' = res.w
           /\ env' = [env EXCEPT !["C"] = res.st]
           /\ last' = Call("Writer", 0, res.exc, NoRet)
    /\ UNCHANGED <<r, mg, hist, pure>>

TgtPut(samples) ==
    /\ mg.pc = "C"
    /\ w.state = "open"
    /\ w.nb_samples < MaxCursor
    /\ LET res == put_samples(w, env["C"], samples, "none")
       IN  /\ w' = res.w
           /\ env' = [env EXCEPT !["C"] = res.st]
           /\ last' = Call("put_samples", 0, res.exc, NoRet)
    /\ hist' = Append(hist, samples)
    /\ UNCHANGED <<r, mg, pure>>

TgtClose ==
    /\ mg.pc = "C"
    /\ w.state = "open"
    /\ LET res == Writer_close(w, env["C"], "none")
       IN  /\ w' = NoWriter
           /\ env' = [env EXCEPT !["C"] = res.st]
           /\ last' = Call("Writer.close", 0, res.exc, NoRet)
    /\ mg' = [mg EXCEPT !.pc = "A"]
    /\ UNCHANGED <<r, hist, pure>>

NextMergeInto ==
    \/ TgtOpen
    \/ \E s \in SrcSamples : TgtPut(s)
    \/ TgtClose
    \/ SrcOpen
    \/ \E s \in SrcSamples : SrcPut(s)
    \/ SrcSetMeta("k1", <<"a">>)
    \/ SrcClose
    \/ MergeOpen(1)
    \/ \E f \in {"none", "put"} : MergeCopySample(f)
    \/ MergeCopyMeta
    \/ MergeClose

SpecMergeInto == InitMergeInto /\ [][NextMergeInto]_vars

\* the merge under every engine failure of its put_samples calls
NextMergeAbort ==
    \/ SrcOpen
    \/ \E s \in SrcSamples : SrcPut(s)
    \/ \E kv \in SrcMetaInputs : SrcSetMeta(kv[1], kv[2])
    \/ SrcClose
    \/ \E m \in {0, 1} : MergeOpen(m)
    \/ \E f \in Faults : MergeCopySample(f)
    \/ MergeCopyMeta
    \/ MergeClose

SpecMergeAbort == InitMerge /\ [][NextMergeAbort]_vars

(***************************************************************************)
(* What the claims speak of.                                               *)
(***************************************************************************)
\* the store of the session's directory
Store == env[Dir]

\* the data_db key of sample index i
SampleKey(i) == encode_str(FormatKey(i))

\* what length() of a Reader opened on st reports
Length(st) == Reader_init(Dir, st).r.nb_samples

\* what get_sample(i) of a Reader opened on st gives
ReadBack(st, i) == get_sample(Reader_init(Dir, st).r, st, i)

\* the value of the reserved sample-count key
CountValue(st) == txn_get(st.meta, encode_str(NB_SAMPLES))

(***************************************************************************)
(* C1  Append monotonicity.  After n put_samples calls that returned, on a *)
(* Writer opened on a fresh store and with nothing else called, a Reader   *)
(* opened now reports length() = n, get_sample(i) returns the i-th dict    *)
(* passed for every 0 <= i < n, and data_db holds exactly the keys of      *)
(* 0..n-1.                                                                 *)
(***************************************************************************)
C1_AppendMonotonicity ==
    (pure /\ last.op = "Reader" /\ last.exc = "none") =>
        LET n == Len(hist)
        IN  /\ r.nb_samples = n
            /\ \A i \in 0..(n - 1) : get_sample(r, Store, i) = Out("none", hist[i + 1])
            /\ DbKeys(Store.data) = {SampleKey(i) : i \in 0..(n - 1)}

(***************************************************************************)
(* C2  Count consistency.  After any sequence of completed Writer calls,   *)
(* the sample count stored under the reserved key, when present, is the    *)
(* number of entries of data_db.                                           *)
(***************************************************************************)
C2_CountConsistency ==
    ~IsNone(CountValue(Store)) =>
        CountValue(Store) = encode_str(str(Cardinality(Store.data)))

(***************************************************************************)
(* C3  Resume semantics.  A Writer opened after a Writer was closed with n *)
(* put_samples calls returned has its cursor at n, and its next            *)
(* put_samples that returns writes the dict at index n, leaves the entries *)
(* of 0..n-1 unchanged and makes the length n + 1.                         *)
(***************************************************************************)
C3_ResumeSemantics ==
    [][\A s \in SampleInputs, f \in Faults :
         (/\ pure
          /\ last.op = "Writer"
          /\ w.db_stats = "auto_update_stats"
          /\ last'.op = "put_samples"
          /\ last'.exc = "none"
          /\ PutSamples(s, f)) =>
            LET n == Len(hist)
            IN  /\ w.nb_samples = n
                /\ ReadBack(env'[Dir], n) = Out("none", s)
                /\ \A i \in 0..(n - 1) :
                       txn_get(env'[Dir].data, SampleKey(i)) = txn_get(Store.data, SampleKey(i))
                /\ Length(env'[Dir]) = n + 1]_vars

\* merge_db has returned
MergeReturned == last.op = "merge_db" /\ last.exc = "none"

(***************************************************************************)
(* C4  Merge ordering.  After merge_db returns on sources A and B and a    *)
(* fresh target, the target has length lenA + lenB, its sample i is A's    *)
(* sample i for 0 <= i < lenA, its sample lenA + j is B's sample j for     *)
(* 0 <= j < lenB, and its reserved sample-count key holds lenA + lenB.     *)
(***************************************************************************)
C4_MergeOrdering ==
    MergeReturned =>
        LET lenA == Length(env["A"])
            lenB == Length(env["B"])
        IN  /\ Length(env["C"]) = lenA + lenB
            /\ \A i \in 0..(lenA - 1) :
                   /\ ReadBack(env["C"], i).exc = "none"
                   /\ ReadBack(env["C"], i) = ReadBack(env["A"], i)
            /\ \A j \in 0..(lenB - 1) :
                   /\ ReadBack(env["C"], lenA + j).exc = "none"
                   /\ ReadBack(env["C"], lenA + j) = ReadBack(env["B"], j)
            /\ CountValue(env["C"]) = encode_str(str(lenA + lenB))

\* a merge has returned of an A of two different samples and a non-empty B
C4_Witness ==
    /\ MergeReturned
    /\ Length(env["A"]) = 2
    /\ Length(env["B"]) >= 1
    /\ ReadBack(env["A"], 0) # ReadBack(env["A"], 1)
    /\ ReadBack(env["B"], 0) # ReadBack(env["A"], 0)

\* the metadata value of the user key k in the store st
MetaValue(st, k) == txn_get(st.meta, encode_str(k))

\* the metadata keys of the store st other than the reserved one
MetaKeys(st) == get_meta_key_info(st) \ {NB_SAMPLES}

(***************************************************************************)
(* C5  Merge metadata reconciliation.  After merge_db returns, for every   *)
(* metadata key k other than the reserved sample-count key, the target     *)
(* holds B's value when k is in B (whether or not it is in A), and A's     *)
(* value when k is only in A.                                              *)
(***************************************************************************)
C5_MergeMetadata ==
    MergeReturned =>
        \A k \in MetaKeys(env["A"]) \cup MetaKeys(env["B"]) :
            IF k \in MetaKeys(env["B"])
            THEN MetaValue(env["C"], k) = MetaValue(env["B"], k)
            ELSE MetaValue(env["C"], k) = MetaValue(env["A"], k)

\* a merge has returned of sources that hold k1 with different values and
\* of which only A holds k2
C5_Witness ==
    /\ MergeReturned
    /\ "k1" \in MetaKeys(env["A"]) \cap MetaKeys(env["B"])
    /\ MetaValue(env["A"], "k1") # MetaValue(env["B"], "k1")
    /\ "k2" \in MetaKeys(env["A"]) \ MetaKeys(env["B"])

\* an overwrite call of index k with the dict s: change_db_value or change_value
Overwrite(k, s) ==
    \/ \E c \in Confirms, f \in {"none", "put"} : ChangeDbValue(k, s, c[1], c[2], f)
    \/ \E f \in {"none", "put"} : ChangeValue(k, s, f)

\* the step is an overwrite call
IsOverwrite == last'.op \in {"change_db_value", "change_value"}

\* whether the entry of index i holds the dict s
Holds(st, i, s) ==
    LET v == txn_get(st.data, SampleKey(i))
    IN  ~IsNone(v) /\ DecodeLoop(unpackb(v), 1, <<>>) = s

\* nothing but the entry of index k differs between the stores st and st2
OnlyEntryChanged(st, st2, k) ==
    /\ {p \in st2.data : p[1] # SampleKey(k)} = {p \in st.data : p[1] # SampleKey(k)}
    /\ st2.meta = st.meta

C7_OverwriteBounds ==
    [][\A k \in WriteIdx :
         (/\ IsOverwrite
          /\ w.state = "open"
          /\ ~(0 <= k /\ k < w.nb_samples)
          /\ \/ ChangeDbValue(k, SampleB, FALSE, "", "none")
             \/ ChangeDbValue(k, SampleB, TRUE, "yes", "none")
             \/ ChangeValue(k, SampleB, "none")) =>
            /\ last'.exc = "ValueError(index)"
            /\ env'[Dir].data = Store.data
            /\ CountValue(env'[Dir]) = CountValue(Store)]_vars

(***************************************************************************)
(* C8  Read bounds.  On an open Reader over a store that only put_samples  *)
(* calls that returned have written, get_sample(i) returns the i-th dict   *)
(* stored for 0 <= i < length() and fails with the out-of-range error for  *)
(* every other i.                                                          *)
(***************************************************************************)
C8_ReadBounds ==
    [][\A i \in ReadIdx :
         (pure /\ last'.op = "get_sample" /\ ReaderGetSample(i)) =>
            IF 0 <= i /\ i < r.nb_samples
            THEN last'.exc = "none" /\ last'.ret = hist[i + 1]
            ELSE last'.exc = "IndexError"]_vars

(***************************************************************************)
(* C9  Negative wraparound, as stated: on a Reader of length L > 0 whose   *)
(* last sample is stored, get_sample(-1) gives what get_sample(L-1) gives, *)
(* get_sample(L) fails with the out-of-range error, and so does            *)
(* get_sample(i) for i < -L.                                               *)
(***************************************************************************)
C9_GetSampleWraps ==
    (/\ r.state = "open"
     /\ r.nb_samples > 0
     /\ last.op = "get_sample"
     /\ get_sample(r, Store, r.nb_samples - 1).exc = "none") =>
        LET L == r.nb_samples
        IN  /\ last.arg = 0 - 1 =>
                   Out(last.exc, last.ret) = get_sample(r, Store, L - 1)
            /\ last.arg = L => last.exc = "IndexError"
            /\ last.arg < 0 - L => last.exc = "IndexError"

(***************************************************************************)
(* C9 amended.  On a Reader of length L > 0 it is indexing, reader[-1],    *)
(* that gives what get_sample(L-1) gives; reader[L] and get_sample(L) fail *)
(* with the out-of-range error; reader[i] fails with it for i < -L; and    *)
(* get_sample(i) fails with it for every i < 0.                            *)
(***************************************************************************)
C9_IndexingWraps ==
    (r.state = "open" /\ r.nb_samples > 0 /\ last.op \in {"get_sample", "getitem"}) =>
        LET L == r.nb_samples
        IN  /\ (last.op = "getitem" /\ last.arg = 0 - 1) =>
                   Out(last.exc, last.ret) = get_sample(r, Store, L - 1)
            /\ last.arg = L => last.exc = "IndexError"
            /\ last.arg < 0 - L => last.exc = "IndexError"
            /\ (last.op = "get_sample" /\ last.arg < 0) => last.exc = "IndexError"

\* reader[-1] has returned the last sample of a Reader of positive length
C9_Witness ==
    /\ r.state = "open"
    /\ r.nb_samples > 0
    /\ last.op = "getitem"
    /\ last.arg = 0 - 1
    /\ last.exc = "none"
    /\ Holds(Store, r.nb_samples - 1, last.ret)

(***************************************************************************)
(* C10  Capacity guard.  A put_samples call with a dict of arrays whose    *)
(* bytes exceed the RAM budget fails with the capacity error and changes   *)
(* neither the store (data_db, length()) nor the cursor; a call within the *)
(* budget is never refused by the guard, whatever was stored before.       *)
(***************************************************************************)
C10_CapacityGuard ==
    [][\A s \in ArraySamples, f \in Faults :
         (last'.op = "put_samples" /\ PutSamples(s, f)) =>
            IF BytesRequired(s) > w.ram_gb_limit * GB
            THEN /\ last'.exc = "ValueError(ram_gb_limit)"
                 /\ env' = env
                 /\ w' = w
            ELSE last'.exc # "ValueError(ram_gb_limit)"]_vars

\* an over-budget put_samples was refused on a store that already holds entries
C10_Witness ==
    /\ last.op = "put_samples"
    /\ last.exc = "ValueError(ram_gb_limit)"
    /\ Store.data # {}

(***************************************************************************)
(* C11  Store-full failure.  A put_samples call of an open Writer, with a  *)
(* dict of arrays within the budget, during which the engine reports the   *)
(* map full (at an entry put or at the commit) fails with the store-full   *)
(* error, commits no sample entry and leaves the append cursor unchanged.  *)
(***************************************************************************)
C11_StoreFull ==
    [][\A s \in {SampleA, SampleB}, f \in {"put", "commit"} :
         (last'.op = "put_samples" /\ w.state = "open" /\ PutSamples(s, f)) =>
            /\ last'.exc = "AttributeError(map_size)"
            /\ env'[Dir].data = Store.data
            /\ w'.nb_samples = w.nb_samples]_vars

(***************************************************************************)
(* C12  Empty-store read.  A Reader opened on a store whose sample-count   *)
(* key is absent or holds 0 opens without error and reports length 0; and  *)
(* the absent count is the only error swallowed: when a Reader opens       *)
(* without error on a store that holds the key, the key's value reads as   *)
(* an integer, which is the length reported.                               *)
(***************************************************************************)
C12_EmptyStoreRead ==
    (last.op = "Reader" /\ Store.exists) =>
        LET c == CountValue(Store)
        IN  /\ (IsNone(c) \/ c = encode_str(str(0))) =>
                   (last.exc = "none" /\ r.nb_samples = 0)
            /\ (last.exc = "none" /\ ~IsNone(c)) =>
                   /\ IsIntLiteral(decode_str(c))
                   /\ r.nb_samples = int(decode_str(c))

(***************************************************************************)
(* C13  Reader snapshot under a concurrent Writer.  A Reader opened        *)
(* between any two transactions of the Writer keeps the length it read at  *)
(* open time while the Writer appends, and every index of 0..length-1 has  *)
(* a committed entry that get_sample returns.                              *)
(***************************************************************************)
C13_ReaderSnapshot ==
    [][/\ (r.state = "open" /\ r'.state = "open") => r'.nb_samples = r.nb_samples
       /\ r'.state = "open" =>
              \A i \in 0..(r'.nb_samples - 1) :
                  /\ ~IsNone(txn_get(env'[Dir].data, SampleKey(i)))
                  /\ get_sample(r', env'[Dir], i).exc = "none"]_vars

(***************************************************************************)
(* C14  Closed is terminal.  Once close() has completed on a Writer        *)
(* handle, every put_samples, change_db_value, change_value and            *)
(* set_meta_str on the handle raises and leaves the stores unchanged, and  *)
(* the handle stays closed; only Writer() gives a handle that writes.      *)
(***************************************************************************)
C14_ClosedIsTerminal ==
    [][(w.state = "closed" /\ last'.op # "Writer") =>
           /\ w'.state = "closed"
           /\ last'.op \in {"put_samples", "change_db_value", "change_value",
                            "set_meta_str"} =>
                  (last'.exc # "none" /\ env' = env /\ w' = w)]_vars

\* a put_samples on a closed handle has raised, on a store that holds samples
C14_Witness ==
    /\ w.state = "closed"
    /\ last.op = "put_samples"
    /\ last.exc = "lmdb.Error"
    /\ Store.data # {}

(***************************************************************************)
(* C15  Close idempotence.  close() on a Writer handle that is already     *)
(* closed raises no error and leaves the stores as the first close left    *)
(* them.                                                                   *)
(***************************************************************************)
C15_CloseIdempotent ==
    [][(w.state = "closed" /\ last'.op = "Writer.close") =>
           (last'.exc = "none" /\ env' = env /\ w'.state = "closed")]_vars

(***************************************************************************)
(* C16  Scoped release.  When the with-block of a Writer or of a Reader    *)
(* is left, after a call that returned or one that raised, the handle's    *)
(* environment is closed.                                                  *)
(***************************************************************************)
C16_ScopedRelease ==
    [][/\ last'.op = "Writer.__exit__" => w'.state = "closed"
       /\ last'.op = "Reader.__exit__" => r'.state = "closed"]_vars

(***************************************************************************)
(* C17  Ranged read.  get_samples(i, size) raises IndexError exactly when  *)
(* i < 0 or i + size exceeds the length; otherwise it ends as the calls    *)
(* get_sample(i), ..., get_sample(i + size - 1) made in index order end:   *)
(* it returns the sequence of their results when all of them return (the   *)
(* empty sequence when size <= 0), and raises what the first failing one   *)
(* raises.                                                                 *)
(***************************************************************************)
RangeIdx == last.arg[1]

RangeSize == last.arg[2]

\* the indices of [i, i + size) whose get_sample raises
RangeFailing == {k \in RangeIdx..(RangeIdx + RangeSize - 1) : get_sample(r, Store, k).exc # "none"}

C17_RangedRead ==
    last.op = "get_samples" =>
        /\ last.exc = "IndexError" <=> (RangeIdx < 0 \/ RangeIdx + RangeSize > r.nb_samples)
        /\ last.exc = "none" =>
               /\ RangeFailing = {}
               /\ Len(last.ret) = (IF RangeSize > 0 THEN RangeSize ELSE 0)
               /\ \A j \in 1..Len(last.ret) :
                      last.ret[j] = get_sample(r, Store, RangeIdx + j - 1).ret
        /\ last.exc \notin {"IndexError", "none"} =>
               /\ RangeFailing # {}
               /\ \E k \in RangeFailing :
                      /\ \A l \in RangeFailing : k <= l
                      /\ last.exc = get_sample(r, Store, k).exc

C17_Witness ==
    /\ last.op = "get_samples"
    /\ last.exc = "none"
    /\ RangeIdx = 0
    /\ Len(last.ret) = 2
    /\ last.ret[1] # last.ret[2]

(***************************************************************************)
(* C18  Merge abort.  When a put_samples of merge_db's sample loops        *)
(* raises, merge_db raises the same exception and writes nothing further;  *)
(* the failing call has added no entry and no metadata, so the target      *)
(* holds the entries of the samples copied before it, indices 0..k-1, and  *)
(* its stored count reads k.                                               *)
(***************************************************************************)
PutFailures == {"AttributeError(map_size)", "lmdb.MapFullError"}

\* the samples merge_db has copied when its loop is at mg.i
Copied == IF mg.pc = "copyA" THEN mg.i ELSE mg.A_db.nb_samples + mg.i

C18_MergeAbort ==
    [][(last'.op = "merge_db" /\ last'.exc \in PutFailures /\ mg.pc \in {"copyA", "copyB"}) =>
           /\ mg'.pc = "done"
           /\ env'["C"] = env["C"]
           /\ DbKeys(env'["C"].data) = {SampleKey(i) : i \in 0..(Copied - 1)}
           /\ Length(env'["C"]) = Copied]_vars

(***************************************************************************)
(* C19  Metadata writes do not touch the dataset.  A set_meta_str(key,     *)
(* value) that returns, the reserved key nb_samples included, leaves       *)
(* data_db and the Writer's nb_samples as they were, a Reader opened after *)
(* it reports the length a Reader opened before it would have reported,    *)
(* and the same call made again leaves the store as the first left it.     *)
(***************************************************************************)
C19_MetadataFrame ==
    [][\A kv \in MetaInputs :
         (last'.op = "set_meta_str" /\ last'.exc = "none" /\ SetMetaStr(kv[1], kv[2], "none")) =>
            /\ env'[Dir].data = Store.data
            /\ w'.nb_samples = w.nb_samples
            /\ Length(env'[Dir]) = Length(Store)
            /\ set_meta_str(w', env'[Dir], kv[1], kv[2], "none").st = env'[Dir]]_vars

(***************************************************************************)
(* C20  Resume without close.  A Writer opened after a Writer stopped      *)
(* between two calls without close(), with n put_samples calls returned on *)
(* the store so far, has its cursor at n, and a Reader reports length n.   *)
(***************************************************************************)
C20_ResumeWithoutClose ==
    [][(last.op = "stop" /\ last'.op = "Writer" /\ last'.exc = "none") =>
           /\ w'.nb_samples = Len(hist)
           /\ Length(env'[Dir]) = Len(hist)]_vars

(***************************************************************************)
(* C21  Merge into a non-empty target.  After merge_db returns on a target *)
(* that m put_samples calls and a close() had built, the entries of the    *)
(* target's indices 0..m-1 are what those calls left, A's sample i is read *)
(* at index m + i, B's sample j at index m + lenA + j, and the length and   *)
(* the stored count are m + lenA + lenB.                                   *)
(***************************************************************************)
C21_MergeIntoTarget ==
    MergeReturned =>
        LET m == Len(hist)
            lenA == Length(env["A"])
            lenB == Length(env["B"])
        IN  /\ \A i \in 0..(m - 1) :
                   IF hist[i + 1] = EmptySample
                   THEN IsNone(txn_get(env["C"].data, SampleKey(i)))
                   ELSE Holds(env["C"], i, hist[i + 1])
            /\ \A i \in 0..(lenA - 1) :
                   /\ ReadBack(env["C"], m + i).exc = "none"
                   /\ ReadBack(env["C"], m + i) = ReadBack(env["A"], i)
            /\ \A j \in 0..(lenB - 1) :
                   /\ ReadBack(env["C"], m + lenA + j).exc = "none"
                   /\ ReadBack(env["C"], m + lenA + j) = ReadBack(env["B"], j)
            /\ Length(env["C"]) = m + lenA + lenB
            /\ CountValue(env["C"]) = encode_str(str(m + lenA + lenB))

\* a merge has returned of two sources that hold a sample each into a
\* target that held a sample
C21_Witness ==
    /\ MergeReturned
    /\ Len(hist) >= 1
    /\ hist[1] # EmptySample
    /\ Length(env["A"]) >= 1
    /\ Length(env["B"]) >= 1

=============================================================================
